---- MODULE Spec2Model ----
(***************************************************************************)
(* Model of the media-player controller of media-player-tauri:             *)
(*   src/src/components/MpvPlayer.vue      (session: init, load, region)   *)
(*   src/src/components/MediaControls.vue  (play/pause, stop, speed)       *)
(*                                                                         *)
(* Every handler is an async function: it runs synchronously up to its     *)
(* `await invoke(...)`, which puts a call in flight, and its continuation  *)
(* (the code after the await, or the catch block) runs when the engine     *)
(* answers.  A step of the model is one such run-to-completion piece.      *)
(* Speeds are counted in hundredths (1.0x = 100), lengths in tenths of a   *)
(* pixel.                                                                  *)
(***************************************************************************)
EXTENDS Integers, Sequences, FiniteSets, TLC

\* ---------------------------------------------------------------- bounds
\* number of clicks and key presses (handled or on a disabled control)
\* explored in one behaviour
MaxIntents == 3

\* number of intents of the playback scenario: Initialize, Load Video,
\* Play/Pause twice, Stop
ScenarioIntents == 5

\* ------------------------------------------------------------- constants
\* the value of the Custom Speed field when it holds no number ("")
Empty == -1
\* 0.1 and 4.0 of setCustomSpeed / adjustSpeed
MinSpeed == 10
MaxSpeed == 400
\* 1.0 of resetSpeed and of the initial refs
DefaultSpeed == 100
speedPresets == <<25, 50, 75, 100, 125, 150, 200>>
\* the preset buttons the user tries: the first and the last
PresetsTried == {k \in DOMAIN speedPresets : k = 1 \/ k = Len(speedPresets)}
\* the two Quick Speed Adjustment buttons
Adjustments == {-25, 25}

\* ---------------------------------------------------------------- inputs
\* what the user can leave in the Custom Speed field
TypedSpeeds == {Empty, 0, 5, 450}
\* what the user can leave in the Video file path field
Paths == {"", "/a.mp4"}
\* geometry of the video container as getBoundingClientRect reports it
Rects ==
  { [left |-> 3204, top |-> 96, width |-> 8000, height |-> 5500],
    [left |-> 0, top |-> 6000, width |-> 0, height |-> 5500] }
\* answers of the engine
EngineResults == {"ok"}
EngineErrors == {"err"}
EngineSpeeds == {100, 450}

VARIABLES
  loading, isInitialized, videoLoaded, videoPath, status,   \* MpvPlayer.vue
  rect,                                                     \* videoContainer
  isPlaying, currentSpeed, customSpeed,                     \* MediaControls.vue
  pending,      \* calls in flight: invoke() promises not yet settled
  lastArea,     \* <<>> or <<the last videoArea sent to the engine>>
  ignored,      \* the disabled control the last step clicked, or "none"
  nIntents      \* clicks and key presses so far

vars == <<loading, isInitialized, videoLoaded, videoPath, status, rect,
          isPlaying, currentSpeed, customSpeed, pending, lastArea, ignored, nIntents>>

playerVars == <<loading, isInitialized, videoLoaded, videoPath, rect>>
controlVars == <<isPlaying, currentSpeed, customSpeed>>

\* ---------------------------------------------------------------- helpers
NoArea == [x |-> 0, y |-> 0, width |-> 0, height |-> 0]

\* invoke(cmd, args) issued by handler h
Call(c, h, s, a, p) ==
  [cmd |-> c, handler |-> h, speed |-> s, area |-> a, path |-> p]

Message(prefix, payload, speed) ==
  [prefix |-> prefix, payload |-> payload, speed |-> speed]

\* updateStatus / emitStatus
updateStatus(type, message) == [type |-> type, message |-> message]

Remove(s, i) == [j \in 1..(Len(s) - 1) |-> IF j < i THEN s[j] ELSE s[j + 1]]

\* Math.round on a non-negative length given in tenths
Round(t) == (t + 5) \div 10

\* JavaScript falsiness of the field value: "" and 0
Falsy(v) == v = Empty \/ v = 0

Max(a, b) == IF a >= b THEN a ELSE b
Min(a, b) == IF a <= b THEN a ELSE b

\* a click on a disabled control runs no handler
Ignored(op) ==
  /\ nIntents < MaxIntents
  /\ nIntents' = nIntents + 1
  /\ ignored' = op
  /\ UNCHANGED <<playerVars, controlVars, status, pending, lastArea>>

Init ==
  /\ loading = FALSE
  /\ isInitialized = FALSE
  /\ videoLoaded = FALSE
  /\ videoPath = ""
  /\ status = updateStatus("info", Message("Ready to initialize MPV player", "", Empty))
  /\ rect \in Rects
  /\ isPlaying = FALSE
  /\ currentSpeed = DefaultSpeed
  /\ customSpeed = DefaultSpeed
  /\ pending = <<>>
  /\ lastArea = <<>>
  /\ ignored = "none"
  /\ nIntents = 0

\* ------------------------------------------------------------ user input
\* v-model="videoPath"
EditVideoPath ==
  \E p \in Paths :
    /\ p # videoPath
    /\ videoPath' = p
    /\ ignored' = "none"
    /\ UNCHANGED <<loading, isInitialized, videoLoaded, rect, controlVars,
                   status, pending, lastArea, nIntents>>

\* the layout changes the geometry of the video container
Resize ==
  \E r \in Rects :
    /\ r # rect
    /\ rect' = r
    /\ ignored' = "none"
    /\ UNCHANGED <<loading, isInitialized, videoLoaded, videoPath, controlVars,
                   status, pending, lastArea, nIntents>>

\* ------------------------------------------------------- MpvPlayer.vue
InitializeNeverDisabled == FALSE

\* :disabled="loading"
InitializeDisabled == loading

initializeMpv ==
  /\ nIntents < MaxIntents
  /\ nIntents' = nIntents + 1
  /\ loading' = TRUE
  /\ pending' = Append(pending, Call("init_mpv_player", "initializeMpv", Empty, NoArea, ""))
  /\ ignored' = "none"
  /\ UNCHANGED <<isInitialized, videoLoaded, videoPath, rect, controlVars,
                 status, lastArea>>

ClickInitialize ==
  IF InitializeDisabled THEN Ignored("initializeMpv") ELSE initializeMpv

\* getCurrentSpeed, as far as its await: the calls it puts in flight
getCurrentSpeed(initialized) ==
  IF ~initialized THEN <<>>
  ELSE <<Call("get_playback_speed", "getCurrentSpeed", Empty, NoArea, "")>>

\* a watcher that runs on every assignment
watchEveryAssignment(old, new) ==
  IF new THEN getCurrentSpeed(new) ELSE <<>>

\* watch(() => props.isInitialized, ...): runs when the value changed
watchIsInitialized(old, new) ==
  IF old # new /\ new THEN getCurrentSpeed(new) ELSE <<>>

\* the try block of initializeMpv after the await, then finally
InitResolved ==
  \E i \in DOMAIN pending, result \in EngineResults :
    /\ pending[i].cmd = "init_mpv_player"
    /\ status' = updateStatus("success", Message("", result, Empty))
    /\ isInitialized' = TRUE
    /\ loading' = FALSE
    /\ pending' = Remove(pending, i) \o watchIsInitialized(isInitialized, TRUE)
    /\ ignored' = "none"
    /\ UNCHANGED <<videoLoaded, videoPath, rect, controlVars, lastArea, nIntents>>

\* the catch block of initializeMpv, then finally
InitFailed ==
  \E i \in DOMAIN pending, error \in EngineErrors :
    /\ pending[i].cmd = "init_mpv_player"
    /\ status' = updateStatus("error", Message("Failed to initialize: ", error, Empty))
    /\ isInitialized' = FALSE
    /\ loading' = FALSE
    /\ pending' = Remove(pending, i) \o watchIsInitialized(isInitialized, FALSE)
    /\ ignored' = "none"
    /\ UNCHANGED <<videoLoaded, videoPath, rect, controlVars, lastArea, nIntents>>

\* the videoContainer ref: the div is rendered unconditionally
videoContainerFound == TRUE

videoArea(r) ==
  [x |-> Round(r.left), y |-> Round(r.top),
   width |-> Round(r.width), height |-> Round(r.height)]

\* setupVideoRendering as far as its await; a throw lands in loadVideo's catch
setupVideoRendering ==
  IF ~videoContainerFound
  THEN /\ status' = updateStatus("error",
                      Message("Failed to load video: ", "Error: Video container not found", Empty))
       /\ videoLoaded' = FALSE
       /\ ignored' = "none"
       /\ UNCHANGED <<pending, lastArea>>
  ELSE /\ pending' = Append(pending,
                       Call("setup_video_rendering", "loadVideo", Empty, videoArea(rect), ""))
       /\ lastArea' = <<videoArea(rect)>>
       /\ ignored' = "none"
       /\ UNCHANGED <<status, videoLoaded>>

LoadDisabledPathOnly == videoPath = ""

LoadDisabledInitOnly == ~isInitialized

\* :disabled="!isInitialized || !videoPath"
LoadDisabled == ~isInitialized \/ videoPath = ""

\* loadVideo with the load sent before the rendering area is set up
loadVideoLoadFirst ==
  /\ nIntents < MaxIntents
  /\ nIntents' = nIntents + 1
  /\ IF videoPath = ""
     THEN /\ status' = updateStatus("warning", Message("Please enter a video file path", "", Empty))
          /\ ignored' = "none"
          /\ UNCHANGED <<videoLoaded, pending, lastArea>>
     ELSE /\ pending' = Append(pending, Call("load_video", "loadVideo", Empty, NoArea, videoPath))
          /\ ignored' = "none"
          /\ UNCHANGED <<status, videoLoaded, lastArea>>
  /\ UNCHANGED <<loading, isInitialized, videoPath, rect, controlVars>>

loadVideo ==
  /\ nIntents < MaxIntents
  /\ nIntents' = nIntents + 1
  /\ IF videoPath = ""
     THEN /\ status' = updateStatus("warning", Message("Please enter a video file path", "", Empty))
          /\ ignored' = "none"
          /\ UNCHANGED <<videoLoaded, pending, lastArea>>
     ELSE setupVideoRendering
  /\ UNCHANGED <<loading, isInitialized, videoPath, rect, controlVars>>

ClickLoadVideo ==
  IF LoadDisabled THEN Ignored("loadVideo") ELSE loadVideo

\* setupVideoRendering after its await, then loadVideo up to its own await
SetupResolved ==
  \E i \in DOMAIN pending, result \in EngineResults :
    /\ pending[i].cmd = "setup_video_rendering"
    /\ status' = updateStatus("info", Message("", result, Empty))
    /\ pending' = Append(Remove(pending, i),
                         Call("load_video", "loadVideo", Empty, NoArea, videoPath))
    /\ ignored' = "none"
    /\ UNCHANGED <<playerVars, controlVars, lastArea, nIntents>>

\* the catch of setupVideoRendering reports the error without rethrowing it
SetupFailedContinues ==
  \E i \in DOMAIN pending, error \in EngineErrors :
    /\ pending[i].cmd = "setup_video_rendering"
    /\ status' = updateStatus("error",
                   Message("Failed to load video: Error: Failed to setup video rendering: ",
                           error, Empty))
    /\ pending' = Append(Remove(pending, i),
                         Call("load_video", "loadVideo", Empty, NoArea, videoPath))
    /\ ignored' = "none"
    /\ UNCHANGED <<playerVars, controlVars, lastArea, nIntents>>

\* the catch of setupVideoRendering rethrows into the catch of loadVideo
SetupFailed ==
  \E i \in DOMAIN pending, error \in EngineErrors :
    /\ pending[i].cmd = "setup_video_rendering"
    /\ status' = updateStatus("error",
                   Message("Failed to load video: Error: Failed to setup video rendering: ",
                           error, Empty))
    /\ videoLoaded' = FALSE
    /\ pending' = Remove(pending, i)
    /\ ignored' = "none"
    /\ UNCHANGED <<loading, isInitialized, videoPath, rect, controlVars, lastArea, nIntents>>

LoadResolved ==
  \E i \in DOMAIN pending, result \in EngineResults :
    /\ pending[i].cmd = "load_video"
    /\ status' = updateStatus("success", Message("", result, Empty))
    /\ videoLoaded' = TRUE
    /\ pending' = Remove(pending, i)
    /\ ignored' = "none"
    /\ UNCHANGED <<loading, isInitialized, videoPath, rect, controlVars, lastArea, nIntents>>

LoadFailed ==
  \E i \in DOMAIN pending, error \in EngineErrors :
    /\ pending[i].cmd = "load_video"
    /\ status' = updateStatus("error", Message("Failed to load video: ", error, Empty))
    /\ videoLoaded' = FALSE
    /\ pending' = Remove(pending, i)
    /\ ignored' = "none"
    /\ UNCHANGED <<loading, isInitialized, videoPath, rect, controlVars, lastArea, nIntents>>

\* ---------------------------------------------------- MediaControls.vue
\* :disabled="!isInitialized" of every control of the component
ControlsDisabled == ~isInitialized

\* a handler of MediaControls that sends one command and changes nothing else
Send(op, cmd, speed) ==
  /\ nIntents < MaxIntents
  /\ nIntents' = nIntents + 1
  /\ pending' = Append(pending, Call(cmd, op, speed, NoArea, ""))
  /\ ignored' = "none"
  /\ UNCHANGED <<playerVars, status, lastArea>>

togglePlayPause ==
  /\ Send("togglePlayPause", "play_pause", Empty)
  /\ UNCHANGED controlVars

ClickPlayPause ==
  IF ControlsDisabled THEN Ignored("togglePlayPause") ELSE togglePlayPause

PlayPauseResolved ==
  \E i \in DOMAIN pending, result \in EngineResults :
    /\ pending[i].cmd = "play_pause"
    /\ isPlaying' = ~isPlaying
    /\ status' = updateStatus("info", Message("", result, Empty))
    /\ pending' = Remove(pending, i)
    /\ ignored' = "none"
    /\ UNCHANGED <<playerVars, currentSpeed, customSpeed, lastArea, nIntents>>

\* the catch block with the playing flag put back to its initial value
PlayPauseFailedReset ==
  \E i \in DOMAIN pending, error \in EngineErrors :
    /\ pending[i].cmd = "play_pause"
    /\ isPlaying' = FALSE
    /\ status' = updateStatus("error", Message("Failed to toggle playback: ", error, Empty))
    /\ pending' = Remove(pending, i)
    /\ ignored' = "none"
    /\ UNCHANGED <<playerVars, currentSpeed, customSpeed, lastArea, nIntents>>

PlayPauseFailed ==
  \E i \in DOMAIN pending, error \in EngineErrors :
    /\ pending[i].cmd = "play_pause"
    /\ status' = updateStatus("error", Message("Failed to toggle playback: ", error, Empty))
    /\ pending' = Remove(pending, i)
    /\ ignored' = "none"
    /\ UNCHANGED <<playerVars, controlVars, lastArea, nIntents>>

stopVideo ==
  /\ Send("stopVideo", "stop_video", Empty)
  /\ UNCHANGED controlVars

ClickStop ==
  IF ControlsDisabled THEN Ignored("stopVideo") ELSE stopVideo

StopResolved ==
  \E i \in DOMAIN pending, result \in EngineResults :
    /\ pending[i].cmd = "stop_video"
    /\ isPlaying' = FALSE
    /\ status' = updateStatus("info", Message("", result, Empty))
    /\ pending' = Remove(pending, i)
    /\ ignored' = "none"
    /\ UNCHANGED <<playerVars, currentSpeed, customSpeed, lastArea, nIntents>>

StopFailed ==
  \E i \in DOMAIN pending, error \in EngineErrors :
    /\ pending[i].cmd = "stop_video"
    /\ status' = updateStatus("error", Message("Failed to stop video: ", error, Empty))
    /\ pending' = Remove(pending, i)
    /\ ignored' = "none"
    /\ UNCHANGED <<playerVars, controlVars, lastArea, nIntents>>

setSpeedPreset(speed) ==
  /\ Send("setSpeedPreset", "speed_preset", speed)
  /\ UNCHANGED controlVars

ClickSpeedPreset ==
  \E k \in PresetsTried :
    IF ControlsDisabled THEN Ignored("setSpeedPreset") ELSE setSpeedPreset(speedPresets[k])

SpeedPresetResolved ==
  \E i \in DOMAIN pending, result \in EngineResults :
    /\ pending[i].cmd = "speed_preset"
    /\ currentSpeed' = pending[i].speed
    /\ customSpeed' = pending[i].speed
    /\ status' = updateStatus("success", Message("Speed set to ", "x", pending[i].speed))
    /\ pending' = Remove(pending, i)
    /\ ignored' = "none"
    /\ UNCHANGED <<playerVars, isPlaying, lastArea, nIntents>>

SpeedPresetFailed ==
  \E i \in DOMAIN pending, error \in EngineErrors :
    /\ pending[i].cmd = "speed_preset"
    /\ status' = updateStatus("error", Message("Failed to set speed: ", error, Empty))
    /\ pending' = Remove(pending, i)
    /\ ignored' = "none"
    /\ UNCHANGED <<playerVars, controlVars, lastArea, nIntents>>

\* v-model.number="customSpeed"
EditCustomSpeed ==
  \E v \in TypedSpeeds :
    /\ ~ControlsDisabled
    /\ v # customSpeed
    /\ customSpeed' = v
    /\ ignored' = "none"
    /\ UNCHANGED <<playerVars, isPlaying, currentSpeed, status, pending, lastArea, nIntents>>

\* the guard without its upper bound
SpeedInvalidNoUpper(v) == Falsy(v) \/ v < MinSpeed

\* the guard of setCustomSpeed on customSpeed.value
SpeedInvalid(v) == Falsy(v) \/ v < MinSpeed \/ v > MaxSpeed

\* setCustomSpeed as far as its await, run for op with customSpeed.value = v
setCustomSpeed(op, v) ==
  /\ nIntents < MaxIntents
  /\ nIntents' = nIntents + 1
  /\ IF SpeedInvalid(v)
     THEN /\ status' = updateStatus("warning",
                         Message("Speed must be between 0.1x and 4.0x", "", Empty))
          /\ ignored' = "none"
          /\ UNCHANGED pending
     ELSE /\ pending' = Append(pending, Call("set_playback_speed", op, v, NoArea, ""))
          /\ ignored' = "none"
          /\ UNCHANGED status
  /\ UNCHANGED <<playerVars, isPlaying, currentSpeed, lastArea>>

SetDisabled == ~isInitialized \/ Falsy(customSpeed)

ClickSetCustomSpeed ==
  IF SetDisabled THEN Ignored("setCustomSpeed")
  ELSE setCustomSpeed("setCustomSpeed", customSpeed) /\ UNCHANGED customSpeed

\* @keyup.enter="setCustomSpeed" of the text field
EnterCustomSpeed ==
  /\ ~ControlsDisabled
  /\ setCustomSpeed("setCustomSpeed", customSpeed)
  /\ UNCHANGED customSpeed

\* the try block of setCustomSpeed after the await, for the i-th call in flight
SetSpeedResolvedAt(i, result) ==
  /\ pending[i].cmd = "set_playback_speed"
  /\ currentSpeed' = customSpeed
  /\ status' = updateStatus("success", Message("Speed set to ", "x", customSpeed))
  /\ pending' = Remove(pending, i)
  /\ ignored' = "none"
  /\ UNCHANGED <<playerVars, isPlaying, customSpeed, lastArea, nIntents>>

SetSpeedResolved ==
  \E i \in DOMAIN pending, result \in EngineResults : SetSpeedResolvedAt(i, result)

\* the catch block of setCustomSpeed, for the i-th call in flight
SetSpeedFailedAt(i, error) ==
  /\ pending[i].cmd = "set_playback_speed"
  /\ status' = updateStatus("error", Message("Failed to set speed: ", error, Empty))
  /\ pending' = Remove(pending, i)
  /\ ignored' = "none"
  /\ UNCHANGED <<playerVars, controlVars, lastArea, nIntents>>

SetSpeedFailed ==
  \E i \in DOMAIN pending, error \in EngineErrors : SetSpeedFailedAt(i, error)

\* currentSpeed.value + adjustment: + concatenates when the left side is ""
JsAdd(c, a) == IF c = Empty THEN a ELSE c + a

\* Math.max(0.1, Math.min(4.0, currentSpeed.value + adjustment))
newSpeed(c, a) == Max(MinSpeed, Min(MaxSpeed, JsAdd(c, a)))

adjustSpeed(adjustment) ==
  /\ customSpeed' = newSpeed(currentSpeed, adjustment)
  /\ setCustomSpeed("adjustSpeed", newSpeed(currentSpeed, adjustment))

ClickAdjustSpeed ==
  \E a \in Adjustments :
    IF ControlsDisabled THEN Ignored("adjustSpeed") ELSE adjustSpeed(a)

resetSpeed ==
  /\ customSpeed' = DefaultSpeed
  /\ setCustomSpeed("resetSpeed", DefaultSpeed)

ClickResetSpeed ==
  IF ControlsDisabled THEN Ignored("resetSpeed") ELSE resetSpeed

\* the try block with the pending value of the field left as it was
GetSpeedResolvedKeepsField(i, speed) ==
  /\ pending[i].cmd = "get_playback_speed"
  /\ currentSpeed' = speed
  /\ pending' = Remove(pending, i)
  /\ ignored' = "none"
  /\ UNCHANGED <<playerVars, isPlaying, customSpeed, status, lastArea, nIntents>>

\* the try block of getCurrentSpeed after the await, for the i-th call in flight
GetSpeedResolvedAt(i, speed) ==
  /\ pending[i].cmd = "get_playback_speed"
  /\ currentSpeed' = speed
  /\ customSpeed' = speed
  /\ pending' = Remove(pending, i)
  /\ ignored' = "none"
  /\ UNCHANGED <<playerVars, isPlaying, status, lastArea, nIntents>>

GetSpeedResolved ==
  \E i \in DOMAIN pending, speed \in EngineSpeeds : GetSpeedResolvedAt(i, speed)

\* the catch block that reports nothing
GetSpeedFailedSilent ==
  \E i \in DOMAIN pending, error \in EngineErrors :
    /\ pending[i].cmd = "get_playback_speed"
    /\ pending' = Remove(pending, i)
    /\ ignored' = "none"
    /\ UNCHANGED <<playerVars, controlVars, status, lastArea, nIntents>>

GetSpeedFailed ==
  \E i \in DOMAIN pending, error \in EngineErrors :
    /\ pending[i].cmd = "get_playback_speed"
    /\ status' = updateStatus("error", Message("Failed to get current speed: ", error, Empty))
    /\ pending' = Remove(pending, i)
    /\ ignored' = "none"
    /\ UNCHANGED <<playerVars, controlVars, lastArea, nIntents>>

\* ------------------------------------------------------- specification
Next ==
  \/ EditVideoPath
  \/ Resize
  \/ ClickInitialize
  \/ InitResolved
  \/ InitFailed
  \/ ClickLoadVideo
  \/ SetupResolved
  \/ SetupFailed
  \/ LoadResolved
  \/ LoadFailed
  \/ ClickPlayPause
  \/ PlayPauseResolved
  \/ PlayPauseFailed
  \/ ClickStop
  \/ StopResolved
  \/ StopFailed
  \/ ClickSpeedPreset
  \/ SpeedPresetResolved
  \/ SpeedPresetFailed
  \/ EditCustomSpeed
  \/ ClickSetCustomSpeed
  \/ EnterCustomSpeed
  \/ SetSpeedResolved
  \/ SetSpeedFailed
  \/ ClickAdjustSpeed
  \/ ClickResetSpeed
  \/ GetSpeedResolved
  \/ GetSpeedFailed

Spec == Init /\ [][Next]_vars

\* ------------------------------------------------- the playback scenario
\* One user who waits for the engine's answer before the next click, and an
\* engine that accepts every call.
ScenarioInit ==
  /\ loading = FALSE
  /\ isInitialized = FALSE
  /\ videoLoaded = FALSE
  /\ videoPath = ""
  /\ status = updateStatus("info", Message("Ready to initialize MPV player", "", Empty))
  /\ rect \in Rects
  /\ isPlaying = FALSE
  /\ currentSpeed = DefaultSpeed
  /\ customSpeed = DefaultSpeed
  /\ pending = <<>>
  /\ lastArea = <<>>
  /\ ignored = "none"
  /\ nIntents = MaxIntents - ScenarioIntents

\* intents of the scenario issued so far
Done == nIntents - (MaxIntents - ScenarioIntents)

\* every call of the intents issued so far was answered (the speed query of
\* the watcher may still be in flight)
Settled == \A i \in DOMAIN pending : pending[i].cmd = "get_playback_speed"

ScenarioNext ==
  \/ EditVideoPath
  \/ Resize
  \/ (Done = 0 /\ Settled /\ ClickInitialize)
  \/ InitResolved
  \/ GetSpeedResolved
  \/ (Done = 1 /\ Settled /\ ~LoadDisabled /\ ClickLoadVideo)
  \/ SetupResolved
  \/ LoadResolved
  \/ (Done \in {2, 3} /\ Settled /\ ~ControlsDisabled /\ ClickPlayPause)
  \/ PlayPauseResolved
  \/ (Done = 4 /\ Settled /\ ~ControlsDisabled /\ ClickStop)
  \/ StopResolved

SpecScenario == ScenarioInit /\ [][ScenarioNext]_vars

\* the Loaded state of the session, as far as the components record it
Loaded == isInitialized /\ videoLoaded

\* the states of the scenario up to and including the second Play/Pause
ScenarioUpToPause ==
  Settled =>
    /\ Done = 1 => (isInitialized /\ ~videoLoaded /\ ~isPlaying)
    /\ Done = 2 => (Loaded /\ ~isPlaying)
    /\ Done = 3 => (Loaded /\ isPlaying)
    /\ Done = 4 => (Loaded /\ ~isPlaying)

\* C11: with every call succeeding, Initialize, Load Video, Play/Pause,
\* Play/Pause, Stop take the session through Initialized, Loaded(Paused),
\* Loaded(Playing), Loaded(Paused) and end in a state that is not Loaded and
\* has the playing flag cleared.
C11_ScenarioEndsStopped ==
  /\ ScenarioUpToPause
  /\ (Settled /\ Done = ScenarioIntents) => (~Loaded /\ ~isPlaying)

\* ================================================================ claims
InRange(v) == MinSpeed <= v /\ v <= MaxSpeed

\* C1: a Play/Pause click while no media is loaded sends nothing to the
\* engine: the calls in flight are the same before and after the click.
C1_ToggleNeedsLoaded ==
  [][(~videoLoaded /\ ClickPlayPause) => pending' = pending]_vars

\* C2: a Load Video click with a non-empty path while the session is not
\* initialized changes neither isInitialized nor videoLoaded and sends
\* neither setup_video_rendering nor load_video.
C2_LoadNeedsInitialized ==
  [][(~isInitialized /\ videoPath # "" /\ ClickLoadVideo)
       => UNCHANGED <<isInitialized, videoLoaded, pending, lastArea>>]_vars

C2_Witness ==
  ignored = "loadVideo" /\ ~isInitialized /\ videoPath # "" /\ pending = <<>>

\* C3: togglePlayPause, stopVideo, setSpeedPreset and setCustomSpeed change
\* neither the playing flag nor the current speed when they send their
\* command, and when the engine call fails the two keep their values and the
\* status becomes an error.
C3_UpdateAfterConfirm ==
  [][/\ (ClickPlayPause \/ ClickStop \/ ClickSpeedPreset
           \/ ClickSetCustomSpeed \/ EnterCustomSpeed)
          => (isPlaying' = isPlaying /\ currentSpeed' = currentSpeed)
     /\ (PlayPauseFailed \/ StopFailed \/ SpeedPresetFailed \/ SetSpeedFailed)
          => /\ isPlaying' = isPlaying
             /\ currentSpeed' = currentSpeed
             /\ status'.type = "error"]_vars

C3_Witness ==
  /\ status.type = "error"
  /\ status.message.prefix = "Failed to toggle playback: "
  /\ isPlaying
  /\ pending = <<>>

\* C4: a failed init_mpv_player, setup_video_rendering or load_video leaves
\* isInitialized and videoLoaded as they were before the failure.
C4_EngineErrorKeepsState ==
  [][(InitFailed \/ SetupFailed \/ LoadFailed)
       => UNCHANGED <<isInitialized, videoLoaded>>]_vars

\* C5: at most one engine command is in flight at any time.
C5_SingleFlight == Len(pending) <= 1

\* C6: the current speed is within [0.1, 4.0] in every reachable state.
C6_SpeedInRange == InRange(currentSpeed)

\* C7: whenever setCustomSpeed runs, it sends set_playback_speed with the
\* pending value iff that value is within [0.1, 4.0]; otherwise it sends
\* nothing, leaves the current speed alone and reports a warning.
C7_SetCustomIffInRange ==
  [][((ClickSetCustomSpeed /\ ~SetDisabled) \/ EnterCustomSpeed)
       => IF InRange(customSpeed)
          THEN pending' = Append(pending,
                 Call("set_playback_speed", "setCustomSpeed", customSpeed, NoArea, ""))
          ELSE /\ pending' = pending
               /\ currentSpeed' = currentSpeed
               /\ status'.type = "warning"]_vars

C7_Witness ==
  /\ status.type = "warning"
  /\ status.message.prefix = "Speed must be between 0.1x and 4.0x"
  /\ ~InRange(customSpeed)
  /\ InRange(currentSpeed)

\* C8: adjustSpeed sends set_playback_speed with clamp(current + delta, 0.1,
\* 4.0), and when that call succeeds the current speed is within [0.1, 4.0].
C8_AdjustWithinBounds ==
  [][/\ (ClickAdjustSpeed /\ ~ControlsDisabled /\ currentSpeed # Empty)
          => \E a \in Adjustments :
               pending' = Append(pending,
                 Call("set_playback_speed", "adjustSpeed",
                      Max(MinSpeed, Min(MaxSpeed, currentSpeed + a)), NoArea, ""))
     /\ \A i \in DOMAIN pending :
          (pending[i].handler = "adjustSpeed"
             /\ \E result \in EngineResults : SetSpeedResolvedAt(i, result))
          => InRange(currentSpeed')]_vars

\* C9: a Load Video click does not send setup_video_rendering again when the
\* region is identical to the one last configured.
C9_ConfigureIdempotent ==
  [][(ClickLoadVideo /\ pending' # pending)
       => lastArea # <<videoArea(rect)>>]_vars

\* C10: setup_video_rendering is never in flight with a region of width 0 or
\* height 0.
C10_NoZeroArea ==
  \A i \in DOMAIN pending :
    pending[i].cmd = "setup_video_rendering"
      => pending[i].area.width > 0 /\ pending[i].area.height > 0

\* C12: when get_playback_speed succeeds, the current speed and the pending
\* value of the field both become the value the engine reported, whatever
\* they were; when it fails, both keep their values.
C12_EngineValueWins ==
  [][/\ \A i \in DOMAIN pending, speed \in EngineSpeeds :
          GetSpeedResolvedAt(i, speed)
            => currentSpeed' = speed /\ customSpeed' = speed
     /\ GetSpeedFailed => UNCHANGED <<currentSpeed, customSpeed>>]_vars

\* the last status is the preset 2.0x, set while the query was in flight, and
\* the query then answered 4.5
C12_Witness ==
  /\ status.type = "success"
  /\ status.message.prefix = "Speed set to "
  /\ status.message.speed = 200
  /\ currentSpeed = 450
  /\ customSpeed = 450
  /\ pending = <<>>

\* C13: whenever a call to the engine fails, the status becomes an error
\* status whose message carries the engine's error.
C13_FailureObservable ==
  [][(InitFailed \/ SetupFailed \/ LoadFailed \/ PlayPauseFailed \/ StopFailed
        \/ SpeedPresetFailed \/ SetSpeedFailed \/ GetSpeedFailed)
       => /\ status'.type = "error"
          /\ status'.message.payload \in EngineErrors]_vars

C13_Witness ==
  /\ status.type = "error"
  /\ status.message.prefix = "Failed to get current speed: "
  /\ status.message.payload \in EngineErrors

\* the calls of one command in flight
NumCalls(calls, cmd) == Cardinality({i \in DOMAIN calls : calls[i].cmd = cmd})

\* C14: resetSpeed sends what setCustomSpeed sends for the pending value 1.0
\* and changes nothing else, and when that call succeeds the current speed
\* is 1.0.
C14_ResetIsSetCustomOne ==
  [][/\ (ClickResetSpeed /\ ~ControlsDisabled)
          => /\ pending' = Append(pending,
                   Call("set_playback_speed", "resetSpeed", DefaultSpeed, NoArea, ""))
             /\ UNCHANGED <<currentSpeed, status>>
     /\ \A i \in DOMAIN pending :
          (pending[i].handler = "resetSpeed"
             /\ \E result \in EngineResults : SetSpeedResolvedAt(i, result))
          => currentSpeed' = DefaultSpeed]_vars

\* C15 as stated: the command a Load Video click sends is load_video.
C15_LoadBeforeSetup ==
  [][(ClickLoadVideo /\ pending' # pending)
       => pending'[Len(pending')].cmd = "load_video"]_vars

\* C15: the command a Load Video click sends is setup_video_rendering, and
\* load_video is sent only by the step in which a setup_video_rendering call
\* leaves the calls in flight (its answer arrived).
C15_SetupBeforeLoad ==
  [][/\ (ClickLoadVideo /\ pending' # pending)
          => pending' = Append(pending,
               Call("setup_video_rendering", "loadVideo", Empty, videoArea(rect), ""))
     /\ NumCalls(pending', "load_video") > NumCalls(pending, "load_video")
          => NumCalls(pending', "setup_video_rendering")
               < NumCalls(pending, "setup_video_rendering")]_vars

C15_Witness ==
  /\ NumCalls(pending, "load_video") = 1
  /\ NumCalls(pending, "setup_video_rendering") = 0
  /\ lastArea # <<>>

C17_QueryOnlyOnInitialize ==
  [][LET before == NumCalls(pending, "get_playback_speed")
         after == NumCalls(pending', "get_playback_speed")
     IN  /\ after > before <=> (~isInitialized /\ isInitialized')
         /\ after <= before + 1]_vars

C17_Witness ==
  NumCalls(pending, "get_playback_speed") = 1 /\ isInitialized /\ ~loading

\* C18: when a set_playback_speed call succeeds, the current speed becomes
\* the value that call sent.
C18_AdoptsValueSent ==
  [][\A i \in DOMAIN pending, result \in EngineResults :
       SetSpeedResolvedAt(i, result) => currentSpeed' = pending[i].speed]_vars

\* C19: a failed setup_video_rendering sends no load_video, clears
\* videoLoaded and reports the rendering-setup failure as an error; and
\* videoLoaded becomes true only in a step in which a load_video call leaves
\* the calls in flight with a success status.
C19_SetupFailureStopsLoad ==
  [][/\ SetupFailed
          => /\ NumCalls(pending', "load_video") = NumCalls(pending, "load_video")
             /\ ~videoLoaded'
             /\ status'.type = "error"
             /\ status'.message.prefix
                  = "Failed to load video: Error: Failed to setup video rendering: "
             /\ status'.message.payload \in EngineErrors
     /\ (~videoLoaded /\ videoLoaded')
          => /\ NumCalls(pending', "load_video") < NumCalls(pending, "load_video")
             /\ status'.type = "success"]_vars

C19_Witness ==
  /\ status.type = "error"
  /\ status.message.prefix
       = "Failed to load video: Error: Failed to setup video rendering: "
  /\ ~videoLoaded
  /\ pending = <<>>

\* C20: loading is true exactly while an init_mpv_player call is in flight,
\* there is never more than one, and an Initialize click while loading is
\* true sends nothing.
C20_LoadingTracksInit ==
  /\ [](/\ loading <=> NumCalls(pending, "init_mpv_player") = 1
        /\ NumCalls(pending, "init_mpv_player") <= 1)
  /\ [][(loading /\ ClickInitialize) => UNCHANGED <<pending, loading>>]_vars

C20_Witness ==
  loading /\ ignored = "initializeMpv" /\ NumCalls(pending, "init_mpv_player") = 1
====
